---- MODULE Spec2Model ----
(***************************************************************************)
(* whois2http: a WHOIS (TCP) to HTTP proxy.                                *)
(*                                                                         *)
(* The model covers src/main.go: the accept loop of WhoisServer.Serve, the *)
(* stop/done handshake of WhoisServer.Stop, the task spawned for every     *)
(* accepted connection and the per-connection pipeline of                  *)
(* WhoisServer.handler (rate check, read, validate, fetch, respond).       *)
(* Byte strings are sequences of byte values, so that the two regular      *)
(* expressions of the program are computed and not assumed.                *)
(***************************************************************************)
EXTENDS Integers, Sequences, FiniteSets, TLC

(***************************************************************************)
(* Bounds of the model.                                                    *)
(***************************************************************************)
\* connection slots that can be open at the same time
NumConns == 2
\* goroutines that may call Stop()
NumStoppers == 2
\* longest query line enumerated exhaustively by the pipeline specification
MaxLineLen == 5
\* longest upstream body enumerated exhaustively by the pipeline specification
MaxBodyLen == 4
\* longest list of -header flags enumerated by the request specification
MaxHeaders == 3
\* most parts an -upstream template of the request specification is made of
MaxTemplateParts == 3

Conns == 1..NumConns
Stoppers == 1..NumStoppers

(***************************************************************************)
(* Bytes.                                                                  *)
(***************************************************************************)
CR == 13
LF == 10
Dot == 46
Hyphen == 45

IsAlpha(b) == b \in 65..90 \/ b \in 97..122
IsDigit(b) == b \in 48..57
IsAlnum(b) == IsAlpha(b) \/ IsDigit(b)
IsAlnumHyphen(b) == IsAlnum(b) \/ b = Hyphen

\* "\r\n"
CRLF == <<CR, LF>>
\* "Rate limited\r\n"
RateLimitedMsg == <<82, 97, 116, 101, 32, 108, 105, 109, 105, 116, 101, 100, 13, 10>>
\* "Invalid query\r\n"
InvalidQueryMsg == <<73, 110, 118, 97, 108, 105, 100, 32, 113, 117, 101, 114, 121, 13, 10>>
\* "Upstream query failed\r\n"
UpstreamFailedMsg == <<85, 112, 115, 116, 114, 101, 97, 109, 32, 113, 117, 101, 114, 121, 32, 102, 97, 105, 108, 101, 100, 13, 10>>
\* "Error reading upstream body\r\n"
BodyReadErrorMsg == <<69, 114, 114, 111, 114, 32, 114, 101, 97, 100, 105, 110, 103, 32, 117, 112, 115, 116, 114, 101, 97, 109, 32, 98, 111, 100, 121, 13, 10>>

(***************************************************************************)
(* commandPattern:                                                         *)
(*   ^[a-zA-Z0-9][a-zA-Z0-9-]{0,61}[a-zA-Z0-9]\.[a-zA-Z]{2,}\.?$           *)
(* n is the number of repetitions of the middle class, d whether the       *)
(* optional final dot is taken, t the length left for [a-zA-Z]{2,}.        *)
(***************************************************************************)
MidMax == 61
TldMin == 2

\* CommandMatch as it would be if the label could end with a hyphen
CommandMatch_HyphenEnd(s) ==
    \E n \in 0..MidMax : \E d \in 0..1 :
        LET t == Len(s) - (n + 3) - d IN
        /\ t >= TldMin
        /\ IsAlnum(s[1])
        /\ \A i \in 2..(n + 2) : IsAlnumHyphen(s[i])
        /\ s[n + 3] = Dot
        /\ \A i \in (n + 4)..(n + 3 + t) : IsAlpha(s[i])
        /\ (d = 1 => s[Len(s)] = Dot)

CommandMatch(s) ==
    \E n \in 0..MidMax : \E d \in 0..1 :
        LET t == Len(s) - (n + 3) - d IN
        /\ t >= TldMin
        /\ IsAlnum(s[1])
        /\ \A i \in 2..(n + 1) : IsAlnumHyphen(s[i])
        /\ IsAlnum(s[n + 2])
        /\ s[n + 3] = Dot
        /\ \A i \in (n + 4)..(n + 3 + t) : IsAlpha(s[i])
        /\ (d = 1 => s[Len(s)] = Dot)

(***************************************************************************)
(* translateLineEndingPattern.ReplaceAll(body, "$1\r\n") with the pattern  *)
(* ([^\r])\n : the matches are found left to right and do not overlap;     *)
(* every match is two bytes long, a byte other than CR followed by LF      *)
(* (the negated class matches LF as well), and is replaced by its first    *)
(* byte followed by CR LF.                                                 *)
(***************************************************************************)
RECURSIVE TranslateFrom(_, _)
TranslateFrom(b, i) ==
    IF i > Len(b) THEN <<>>
    ELSE IF i < Len(b) /\ b[i] # CR /\ b[i + 1] = LF
         THEN <<b[i], CR, LF>> \o TranslateFrom(b, i + 2)
         ELSE <<b[i]>> \o TranslateFrom(b, i + 1)

Translate(b) == TranslateFrom(b, 1)

(***************************************************************************)
(* bufio.Reader.ReadString('\n') on the bytes a client sends before it     *)
(* stops sending: the bytes up to and including the first LF, or an error  *)
(* when there is no LF.                                                    *)
(***************************************************************************)
HasLF(data) == \E i \in 1..Len(data) : data[i] = LF

FirstLF(data) == CHOOSE i \in 1..Len(data) :
                    data[i] = LF /\ \A j \in 1..(i - 1) : data[j] # LF

ReadString(data) == SubSeq(data, 1, FirstLF(data))

\* strings.TrimRight(domain, "\r\n")
RECURSIVE TrimRight(_)
TrimRight(s) ==
    IF s # <<>> /\ s[Len(s)] \in {CR, LF}
    THEN TrimRight(SubSeq(s, 1, Len(s) - 1))
    ELSE s

(***************************************************************************)
(* url.QueryEscape(domain): letters, digits and - . _ ~ stand for          *)
(* themselves, a space becomes "+", every other byte becomes "%" followed  *)
(* by its two upper-case hexadecimal digits.                               *)
(***************************************************************************)
\* "0123456789ABCDEF"
UpperHex == <<48, 49, 50, 51, 52, 53, 54, 55, 56, 57, 65, 66, 67, 68, 69, 70>>

\* "-._~"
UnreservedMarks == {45, 46, 95, 126}

EscapeByte(b) ==
    IF IsAlnum(b) \/ b \in UnreservedMarks THEN <<b>>
    ELSE IF b = 32 THEN <<43>>
    ELSE <<37, UpperHex[(b \div 16) + 1], UpperHex[(b % 16) + 1]>>

\* the escapes of the bytes of s, joined in order
RECURSIVE QueryEscape(_)
QueryEscape(s) ==
    IF s = <<>> THEN <<>>
    ELSE IF Len(s) = 1 THEN EscapeByte(s[1])
    ELSE LET h == Len(s) \div 2
         IN QueryEscape(SubSeq(s, 1, h)) \o QueryEscape(SubSeq(s, h + 1, Len(s)))

(***************************************************************************)
(* strings.Replace(s, old, new, n) for a non-empty old: the occurrences of *)
(* old are found left to right and do not overlap; the first n of them,    *)
(* all of them when n < 0, are replaced by new.                            *)
(***************************************************************************)
HasPrefixAt(s, old, i) ==
    /\ i + Len(old) - 1 <= Len(s)
    /\ SubSeq(s, i, i + Len(old) - 1) = old

\* the places at or after i where old occurs in s
IndexesFrom(s, old, i) == {j \in i..Len(s) : HasPrefixAt(s, old, j)}

RECURSIVE ReplaceFrom(_, _, _, _, _)
ReplaceFrom(s, old, new, n, i) ==
    IF n = 0 \/ IndexesFrom(s, old, i) = {}
    THEN SubSeq(s, i, Len(s))
    ELSE LET j == CHOOSE k \in IndexesFrom(s, old, i) :
                      \A m \in IndexesFrom(s, old, i) : k <= m
         IN SubSeq(s, i, j - 1) \o new
                \o ReplaceFrom(s, old, new, IF n < 0 THEN n ELSE n - 1, j + Len(old))

Replace(s, old, new, n) == ReplaceFrom(s, old, new, n, 1)

\* "{{query}}"
QueryToken == <<123, 123, 113, 117, 101, 114, 121, 125, 125>>

(***************************************************************************)
(* The request handler builds. http.NewRequest leaves in req.Host the host *)
(* of the URL and no header; the loop over the configured headers then     *)
(* assigns req.Host for a header named exactly "Host" and calls            *)
(* req.Header.Add for every other one. header lists the pairs given to     *)
(* req.Header.Add, in the order of the calls.                              *)
(***************************************************************************)
\* req.Host as http.NewRequest leaves it
URLHost == "the host of the URL"

NewRequest(u) == [url |-> u, host |-> URLHost, header |-> <<>>]

\* SetHeaders as it would be with the continue after req.Host = h.value left out
RECURSIVE SetHeaders_NoContinue(_, _, _)
SetHeaders_NoContinue(req, hs, i) ==
    IF i > Len(hs) THEN req
    ELSE IF hs[i].name = "Host"
         THEN SetHeaders_NoContinue([req EXCEPT !.host = hs[i].value,
                                                !.header = Append(@, hs[i])], hs, i + 1)
         ELSE SetHeaders_NoContinue([req EXCEPT !.header = Append(@, hs[i])], hs, i + 1)

\* for _, h := range headers {...}, from the i-th header on
RECURSIVE SetHeaders(_, _, _)
SetHeaders(req, hs, i) ==
    IF i > Len(hs) THEN req
    ELSE IF hs[i].name = "Host"
         THEN SetHeaders([req EXCEPT !.host = hs[i].value], hs, i + 1)
         ELSE SetHeaders([req EXCEPT !.header = Append(@, hs[i])], hs, i + 1)

(***************************************************************************)
(* Inputs.                                                                 *)
(***************************************************************************)
StatusOK == 200
\* statuses an upstream may answer with
Statuses == {200, 201, 404, 500}
\* answers of limiter.Get: an error, the limit reached, the limit not reached
LimiterOutcomes == {"error", "reached", "ok"}

\* "example.com"
ExampleCom == <<101, 120, 97, 109, 112, 108, 101, 46, 99, 111, 109>>
\* "not a domain"
NotADomain == <<110, 111, 116, 32, 97, 32, 100, 111, 109, 97, 105, 110>>
\* "a-b.co.uk."
ABCoUk == <<97, 45, 98, 46, 99, 111, 46, 117, 107, 46>>
\* "Domain: example.com\n"
DomainBody == <<68, 111, 109, 97, 105, 110, 58, 32, 101, 120, 97, 109, 112, 108, 101, 46, 99, 111, 109, 10>>

\* "a\nb\n"
BareLines == <<97, 10, 98, 10>>
\* "a\r\nb\r\n"
CRLFLines == <<97, 13, 10, 98, 13, 10>>

SeqsUpTo(S, n) == UNION {[1..k -> S] : k \in 0..n}

\* a label of n letters followed by ".aa"
LongName(n) == [i \in 1..n |-> 97] \o <<Dot, 97, 97>>


\* bytes the exhaustive query lines are made of: a letter, a digit, '-', '.', ' '
LineBytes == {97, 49, Hyphen, Dot, 32}
\* bytes the exhaustive bodies are made of
BodyBytes == {97, CR, LF}

AllQueries ==
    SeqsUpTo(LineBytes, MaxLineLen)
        \cup {ExampleCom, NotADomain, ABCoUk}
        \cup {LongName(n) : n \in (MidMax + 1)..(MidMax + 4)}

AllClientData ==
    {q \o <<LF>> : q \in AllQueries}
        \cup {ExampleCom \o CRLF, ExampleCom \o <<CR, CR, LF, 97>>, ExampleCom, <<>>}

AllBodies == SeqsUpTo(BodyBytes, MaxBodyLen) \cup {DomainBody, BareLines, CRLFLines}

(***************************************************************************)
(* Configurations: the default of -upstream and the -header of the README, *)
(* and, for the claims about the request, every list of up to MaxHeaders   *)
(* headers and every template of up to MaxTemplateParts parts.             *)
(***************************************************************************)
\* "http://example.com:80/whois?format=plain&query={{query}}"
DefaultUpstream == <<104, 116, 116, 112, 58, 47, 47, 101, 120, 97, 109, 112, 108, 101, 46, 99, 111, 109, 58, 56, 48, 47, 119, 104, 111, 105, 115, 63, 102, 111, 114, 109, 97, 116, 61, 112, 108, 97, 105, 110, 38, 113, 117, 101, 114, 121, 61, 123, 123, 113, 117, 101, 114, 121, 125, 125>>

\* "http://example.com:80/whois?format=plain&query=example.com"
DefaultUpstreamForExampleCom == <<104, 116, 116, 112, 58, 47, 47, 101, 120, 97, 109, 112, 108, 101, 46, 99, 111, 109, 58, 56, 48, 47, 119, 104, 111, 105, 115, 63, 102, 111, 114, 109, 97, 116, 61, 112, 108, 97, 105, 110, 38, 113, 117, 101, 114, 121, 61, 101, 120, 97, 109, 112, 108, 101, 46, 99, 111, 109>>

\* -header "X-Forwarded-Proto: whois"
ReadmeHeaders == <<[name |-> "X-Forwarded-Proto", value |-> "whois"]>>

HeaderNames == {"Host", "host", "X-Forwarded-Proto"}

HeaderValues == {"whois", "foo.example"}

AllHeaderLists == SeqsUpTo([name : HeaderNames, value : HeaderValues], MaxHeaders)

\* "{{query}}", "{{", "}}", "query", "q="
TemplateParts == {QueryToken, <<123, 123>>, <<125, 125>>, <<113, 117, 101, 114, 121>>, <<113, 61>>}

RECURSIVE Concat(_)
Concat(ps) == IF ps = <<>> THEN <<>> ELSE Head(ps) \o Concat(Tail(ps))

AllTemplates == {Concat(ps) : ps \in SeqsUpTo(TemplateParts, MaxTemplateParts)}

(***************************************************************************)
(* What the environment of a task may do: the answers of the limiter, the  *)
(* bytes a client sends, the statuses and the bodies of the upstream.      *)
(* The server specification draws from a few of each, one per outcome of   *)
(* the handler; the pipeline specification draws from all of them.         *)
(***************************************************************************)
ServerInputs ==
    [lim |-> {"reached", "ok"},
     data |-> {ExampleCom \o <<LF>>, NotADomain \o CRLF, ExampleCom},
     status |-> {200, 404},
     body |-> {DomainBody}]

PipelineInputs ==
    [lim |-> LimiterOutcomes,
     data |-> AllClientData,
     status |-> Statuses,
     body |-> AllBodies]

(***************************************************************************)
(* State.                                                                  *)
(*                                                                         *)
(* servePc    where Serve is: "accept" (SetDeadline and Accept), "select"  *)
(*            (the select on stop after an accept error), "add" (wg.Add),  *)
(*            "go" (the go statement), "wait" (wg.Wait), "sendDone"        *)
(*            (s.done <- true), "exited"                                   *)
(* serveConn  the connection Accept returned, 0 when there is none         *)
(* serveErr   the error Accept returned: "none", "timeout" or "other"      *)
(* acceptLogged  "error accepting connection" was logged for that error    *)
(* wg         the counter of the sync.WaitGroup                            *)
(* stopPc     where each caller of Stop is: "idle" (not called), "sending" *)
(*            (blocked in s.stop <- true), "waiting" (blocked in <-s.done),*)
(*            "returned"                                                   *)
(* task       per connection slot, the connection and the task serving it  *)
(* upstream   the -upstream flag: the URL template, as bytes               *)
(* headers    the -header flags: a sequence of [name, value]               *)
(***************************************************************************)
VARIABLES servePc, serveConn, serveErr, acceptLogged, wg, stopPc, task, upstream,
          headers

vars == <<servePc, serveConn, serveErr, acceptLogged, wg, stopPc, task, upstream,
         headers>>

\* the command line flags, which nothing assigns after flag.Parse
flags == <<upstream, headers>>

serveVars == <<servePc, serveConn, serveErr, acceptLogged, wg>>

(***************************************************************************)
(* A connection slot.                                                      *)
(*   pc      "free" (no connection), "accepted" (returned by Accept, its   *)
(*           task not started), "rateCheck", "read", "validate", "build",  *)
(*           "fetch", "readBody", "respond" (positions in handler),        *)
(*           "returned" (handler returned), "closed" (conn.Close() done), "done"      *)
(*           (wg.Done() called, the task is over)                          *)
(*   open    the connection is open                                        *)
(*   lim     the answer of limiter.Get, "none" before it is asked          *)
(*   reads   calls of ReadString on the connection                         *)
(*   query   the domain, after TrimRight                                   *)
(*   valid   the result of commandPattern.MatchString: "none", "yes", "no" *)
(*   calls   calls of client.Do                                            *)
(*   up      the result of client.Do: "none", "fail", "ok"                 *)
(*   status  resp.StatusCode, 0 when there is no response                  *)
(*   rd      the result of ioutil.ReadAll: "none", "fail", "ok"            *)
(*   body    the bytes ioutil.ReadAll returned                             *)
(*   out     the bytes written to the connection                           *)
(*   err     what handler returned: "none" (not returned), "nil", "read",  *)
(*           "transport", "status", "bodyread"                             *)
(*   closes  calls of conn.Close()                                         *)
(*   url     the URL handed to http.NewRequest                             *)
(*   reqHost req.Host when client.Do is called                             *)
(*   reqHeaders  the (name, value) pairs given to req.Header.Add, in order *)
(***************************************************************************)
NoConn ==
    [pc |-> "free", open |-> FALSE, lim |-> "none", reads |-> 0, query |-> <<>>,
     valid |-> "none", calls |-> 0, up |-> "none", status |-> 0, rd |-> "none",
     body |-> <<>>, out |-> <<>>, err |-> "none", closes |-> 0,
     url |-> <<>>, reqHost |-> "", reqHeaders |-> <<>>]

NewConn == [NoConn EXCEPT !.pc = "accepted", !.open = TRUE]

DoneConn == [NoConn EXCEPT !.pc = "done"]

\* the slot a new connection takes: the lowest one with no live connection
FreeSlots == {c \in Conns : task[c].pc \in {"free", "done"}}

LowestFree == CHOOSE c \in FreeSlots : \A d \in FreeSlots : c <= d

Init ==
    /\ servePc = "accept"
    /\ serveConn = 0
    /\ serveErr = "none"
    /\ acceptLogged = FALSE
    /\ wg = 0
    /\ stopPc = [s \in Stoppers |-> "idle"]
    /\ task = [c \in Conns |-> NoConn]
    /\ upstream = DefaultUpstream
    /\ headers = ReadmeHeaders

(***************************************************************************)
(* WhoisServer.Stop                                                        *)
(***************************************************************************)
\* Stop() is called: the caller blocks offering a value on the unbuffered stop
StopCall(s) ==
    /\ stopPc[s] = "idle"
    /\ stopPc' = [stopPc EXCEPT ![s] = "sending"]
    /\ UNCHANGED <<flags, serveVars, task>>

(***************************************************************************)
(* WhoisServer.Serve                                                       *)
(***************************************************************************)
\* listener.Accept() returns a connection
AcceptConn ==
    /\ servePc = "accept"
    /\ FreeSlots # {}
    /\ task' = [task EXCEPT ![LowestFree] = NewConn]
    /\ serveConn' = LowestFree
    /\ servePc' = "add"
    /\ UNCHANGED <<flags, serveErr, acceptLogged, wg, stopPc>>

\* listener.Accept() returns the deadline's timeout error
AcceptTimeout ==
    /\ servePc = "accept"
    /\ serveErr' = "timeout"
    /\ acceptLogged' = FALSE
    /\ servePc' = "select"
    /\ UNCHANGED <<flags, serveConn, wg, stopPc, task>>

\* listener.Accept() returns another error, which is logged
AcceptError ==
    /\ servePc = "accept"
    /\ serveErr' = "other"
    /\ acceptLogged' = TRUE
    /\ servePc' = "select"
    /\ UNCHANGED <<flags, serveConn, wg, stopPc, task>>

\* SelectStop as it would be with continue OUTER in place of break OUTER
SelectStop_Continue(s) ==
    /\ servePc = "select"
    /\ stopPc[s] = "sending"
    /\ stopPc' = [stopPc EXCEPT ![s] = "waiting"]
    /\ serveErr' = "none"
    /\ acceptLogged' = FALSE
    /\ servePc' = "accept"
    /\ UNCHANGED <<flags, serveConn, wg, task>>

\* select, case <-s.stop: a caller of Stop is offering a value; break OUTER
SelectStop(s) ==
    /\ servePc = "select"
    /\ stopPc[s] = "sending"
    /\ stopPc' = [stopPc EXCEPT ![s] = "waiting"]
    /\ serveErr' = "none"
    /\ acceptLogged' = FALSE
    /\ servePc' = "wait"
    /\ UNCHANGED <<flags, serveConn, wg, task>>

\* SelectDefault as it would be if an error other than a timeout ended the loop
SelectDefault_BreakOnError ==
    /\ servePc = "select"
    /\ \A s \in Stoppers : stopPc[s] # "sending"
    /\ serveErr' = "none"
    /\ acceptLogged' = FALSE
    /\ servePc' = IF serveErr = "other" THEN "wait" ELSE "accept"
    /\ UNCHANGED <<flags, serveConn, wg, stopPc, task>>

\* select, default: nobody is offering a value on stop; continue OUTER
SelectDefault ==
    /\ servePc = "select"
    /\ \A s \in Stoppers : stopPc[s] # "sending"
    /\ serveErr' = "none"
    /\ acceptLogged' = FALSE
    /\ servePc' = "accept"
    /\ UNCHANGED <<flags, serveConn, wg, stopPc, task>>

\* wg.Add(1)
WgAdd ==
    /\ servePc = "add"
    /\ wg' = wg + 1
    /\ servePc' = "go"
    /\ UNCHANGED <<flags, serveConn, serveErr, acceptLogged, stopPc, task>>

\* go func(handle, conn, done) {...}(s.handler, conn, wg.Done)
Go ==
    /\ servePc = "go"
    /\ task' = [task EXCEPT ![serveConn].pc = "rateCheck"]
    /\ serveConn' = 0
    /\ servePc' = "accept"
    /\ UNCHANGED <<flags, serveErr, acceptLogged, wg, stopPc>>

\* ServeWait as it would be with wg.Wait() left out
ServeWait_NoWait ==
    /\ servePc = "wait"
    /\ servePc' = "sendDone"
    /\ UNCHANGED <<flags, serveConn, serveErr, acceptLogged, wg, stopPc, task>>

\* wg.Wait()
ServeWait ==
    /\ servePc = "wait"
    /\ wg = 0
    /\ servePc' = "sendDone"
    /\ UNCHANGED <<flags, serveConn, serveErr, acceptLogged, wg, stopPc, task>>

\* ServeSendDone as it would be if done were signalled inside the accept loop
ServeSendDone_Continue(s) ==
    /\ servePc = "sendDone"
    /\ stopPc[s] = "waiting"
    /\ stopPc' = [stopPc EXCEPT ![s] = "returned"]
    /\ servePc' = "accept"
    /\ UNCHANGED <<flags, serveConn, serveErr, acceptLogged, wg, task>>

\* ServeSendDone as it would be if done were a buffered channel
ServeSendDone_Buffered(s) ==
    /\ servePc = "sendDone"
    /\ servePc' = "exited"
    /\ UNCHANGED <<flags, serveConn, serveErr, acceptLogged, wg, stopPc, task>>

\* s.done <- true, received by a caller of Stop blocked in <-s.done
ServeSendDone(s) ==
    /\ servePc = "sendDone"
    /\ stopPc[s] = "waiting"
    /\ stopPc' = [stopPc EXCEPT ![s] = "returned"]
    /\ servePc' = "exited"
    /\ UNCHANGED <<flags, serveConn, serveErr, acceptLogged, wg, task>>

ServeNext ==
    \/ AcceptConn
    \/ AcceptTimeout
    \/ AcceptError
    \/ \E s \in Stoppers : SelectStop(s)
    \/ SelectDefault
    \/ WgAdd
    \/ Go
    \/ ServeWait
    \/ \E s \in Stoppers : ServeSendDone(s)

(***************************************************************************)
(* WhoisServer.handler, run by the task of connection c                    *)
(***************************************************************************)
\* handler returns e, having written msg
Return(t, msg, e) == [t EXCEPT !.out = @ \o msg, !.err = e, !.pc = "returned"]

\* RateCheck as it would be with the return after the write left out
RateCheck_NoReturn(c, o) ==
    /\ task[c].pc = "rateCheck"
    /\ task' = [task EXCEPT ![c] =
                    IF o = "reached"
                    THEN [@ EXCEPT !.lim = o, !.out = @ \o RateLimitedMsg, !.pc = "read"]
                    ELSE [@ EXCEPT !.lim = o, !.pc = "read"]]
    /\ UNCHANGED <<flags, serveVars, stopPc>>

\* RateCheck as it would be if an error of limiter.Get counted as limited
RateCheck_FailClosed(c, o) ==
    /\ task[c].pc = "rateCheck"
    /\ task' = [task EXCEPT ![c] =
                    IF o \in {"reached", "error"}
                    THEN Return([@ EXCEPT !.lim = o], RateLimitedMsg, "nil")
                    ELSE [@ EXCEPT !.lim = o, !.pc = "read"]]
    /\ UNCHANGED <<flags, serveVars, stopPc>>

\* shouldLimit: limiter.Get answers o; an error counts as not limited
RateCheck(c, o) ==
    /\ task[c].pc = "rateCheck"
    /\ task' = [task EXCEPT ![c] =
                    IF o = "reached"
                    THEN Return([@ EXCEPT !.lim = o], RateLimitedMsg, "nil")
                    ELSE [@ EXCEPT !.lim = o, !.pc = "read"]]
    /\ UNCHANGED <<flags, serveVars, stopPc>>

\* buf.ReadString('\n') on a client that sends data and no more, TrimRight
ReadQuery(c, data) ==
    /\ task[c].pc = "read"
    /\ task' = [task EXCEPT ![c] =
                    IF HasLF(data)
                    THEN [@ EXCEPT !.reads = @ + 1,
                                   !.query = TrimRight(ReadString(data)),
                                   !.pc = "validate"]
                    ELSE Return([@ EXCEPT !.reads = @ + 1], <<>>, "read")]
    /\ UNCHANGED <<flags, serveVars, stopPc>>

\* Validate as it would be if a mismatch were returned as an error
Validate_ReturnsError(c) ==
    /\ task[c].pc = "validate"
    /\ task' = [task EXCEPT ![c] =
                    IF CommandMatch(@.query)
                    THEN [@ EXCEPT !.valid = "yes", !.pc = "build"]
                    ELSE Return([@ EXCEPT !.valid = "no"], InvalidQueryMsg, "status")]
    /\ UNCHANGED <<flags, serveVars, stopPc>>

\* Validate as it would be with the return after "Invalid query" left out
Validate_NoReturn(c) ==
    /\ task[c].pc = "validate"
    /\ task' = [task EXCEPT ![c] =
                    IF CommandMatch(@.query)
                    THEN [@ EXCEPT !.valid = "yes", !.pc = "build"]
                    ELSE [@ EXCEPT !.valid = "no", !.out = @ \o InvalidQueryMsg,
                                   !.pc = "build"]]
    /\ UNCHANGED <<flags, serveVars, stopPc>>

\* commandPattern.MatchString(domain)
Validate(c) ==
    /\ task[c].pc = "validate"
    /\ task' = [task EXCEPT ![c] =
                    IF CommandMatch(@.query)
                    THEN [@ EXCEPT !.valid = "yes", !.pc = "build"]
                    ELSE Return([@ EXCEPT !.valid = "no"], InvalidQueryMsg, "nil")]
    /\ UNCHANGED <<flags, serveVars, stopPc>>

\* BuildRequest as it would be if only the first "{{query}}" were replaced
BuildRequest_ReplaceFirst(c) ==
    /\ task[c].pc = "build"
    /\ LET u == Replace(upstream, QueryToken, QueryEscape(task[c].query), 1)
           req == SetHeaders(NewRequest(u), headers, 1)
       IN task' = [task EXCEPT ![c] = [@ EXCEPT !.url = req.url,
                                                !.reqHost = req.host,
                                                !.reqHeaders = req.header,
                                                !.pc = "fetch"]]
    /\ UNCHANGED <<flags, serveVars, stopPc>>

\* the URL, http.NewRequest and the loop over the headers
BuildRequest(c) ==
    /\ task[c].pc = "build"
    /\ LET u == Replace(upstream, QueryToken, QueryEscape(task[c].query), -1)
           req == SetHeaders(NewRequest(u), headers, 1)
       IN task' = [task EXCEPT ![c] = [@ EXCEPT !.url = req.url,
                                                !.reqHost = req.host,
                                                !.reqHeaders = req.header,
                                                !.pc = "fetch"]]
    /\ UNCHANGED <<flags, serveVars, stopPc>>

\* client.Do(req) fails
FetchFail(c) ==
    /\ task[c].pc = "fetch"
    /\ task' = [task EXCEPT ![c] =
                    Return([@ EXCEPT !.calls = @ + 1, !.up = "fail"],
                           UpstreamFailedMsg, "transport")]
    /\ UNCHANGED <<flags, serveVars, stopPc>>

\* Fetch as it would be if every 2xx status counted as success
Fetch_Any2xx(c, st) ==
    /\ task[c].pc = "fetch"
    /\ task' = [task EXCEPT ![c] =
                    IF st \notin 200..299
                    THEN Return([@ EXCEPT !.calls = @ + 1, !.up = "ok", !.status = st],
                                InvalidQueryMsg, "status")
                    ELSE [@ EXCEPT !.calls = @ + 1, !.up = "ok", !.status = st,
                                   !.pc = "readBody"]]
    /\ UNCHANGED <<flags, serveVars, stopPc>>

\* client.Do(req) returns a response with status code st
Fetch(c, st) ==
    /\ task[c].pc = "fetch"
    /\ task' = [task EXCEPT ![c] =
                    IF st # StatusOK
                    THEN Return([@ EXCEPT !.calls = @ + 1, !.up = "ok", !.status = st],
                                InvalidQueryMsg, "status")
                    ELSE [@ EXCEPT !.calls = @ + 1, !.up = "ok", !.status = st,
                                   !.pc = "readBody"]]
    /\ UNCHANGED <<flags, serveVars, stopPc>>

\* ReadBodyFail as it would be with the return after the error line left out
ReadBodyFail_NoReturn(c, b) ==
    /\ task[c].pc = "readBody"
    /\ task' = [task EXCEPT ![c] = [@ EXCEPT !.rd = "fail", !.body = b,
                                             !.out = @ \o BodyReadErrorMsg,
                                             !.pc = "respond"]]
    /\ UNCHANGED <<flags, serveVars, stopPc>>

\* ioutil.ReadAll(resp.Body) fails after the bytes b
ReadBodyFail(c, b) ==
    /\ task[c].pc = "readBody"
    /\ task' = [task EXCEPT ![c] =
                    Return([@ EXCEPT !.rd = "fail", !.body = b],
                           BodyReadErrorMsg, "bodyread")]
    /\ UNCHANGED <<flags, serveVars, stopPc>>

\* ioutil.ReadAll(resp.Body) returns the body b
ReadBody(c, b) ==
    /\ task[c].pc = "readBody"
    /\ task' = [task EXCEPT ![c] = [@ EXCEPT !.rd = "ok", !.body = b, !.pc = "respond"]]
    /\ UNCHANGED <<flags, serveVars, stopPc>>

\* Respond as it would be with the second write left out
Respond_NoTerminator(c) ==
    /\ task[c].pc = "respond"
    /\ task' = [task EXCEPT ![c] =
                    Return([@ EXCEPT !.out = @ \o Translate(task[c].body)], <<>>, "nil")]
    /\ UNCHANGED <<flags, serveVars, stopPc>>

\* the two writes of the response, return nil
Respond(c) ==
    /\ task[c].pc = "respond"
    /\ task' = [task EXCEPT ![c] =
                    Return([@ EXCEPT !.out = @ \o Translate(task[c].body)], CRLF, "nil")]
    /\ UNCHANGED <<flags, serveVars, stopPc>>

(***************************************************************************)
(* The rest of the task: conn.Close() and done()                           *)
(***************************************************************************)
\* TaskClose as it would be if the connection were closed only after a nil return
TaskClose_OnlyOnSuccess(c) ==
    /\ task[c].pc = "returned"
    /\ task' = [task EXCEPT ![c] =
                    IF @.err = "nil"
                    THEN [@ EXCEPT !.open = FALSE, !.closes = @ + 1, !.pc = "closed"]
                    ELSE [@ EXCEPT !.pc = "closed"]]
    /\ UNCHANGED <<flags, serveVars, stopPc>>

\* conn.Close(), after handle(conn) has returned and its error was logged
TaskClose(c) ==
    /\ task[c].pc = "returned"
    /\ task' = [task EXCEPT ![c] = [@ EXCEPT !.open = FALSE, !.closes = @ + 1,
                                             !.pc = "closed"]]
    /\ UNCHANGED <<flags, serveVars, stopPc>>

\* wg.Done(); the slot keeps nothing of the connection
TaskDone(c) ==
    /\ task[c].pc = "closed"
    /\ wg' = wg - 1
    /\ task' = [task EXCEPT ![c] = DoneConn]
    /\ UNCHANGED <<flags, servePc, serveConn, serveErr, acceptLogged, stopPc>>

\* the steps of the task of connection c, its inputs drawn from the sets of I
TaskNext(c, I) ==
    \/ \E o \in I.lim : RateCheck(c, o)
    \/ task[c].pc = "read" /\ \E data \in I.data : ReadQuery(c, data)
    \/ Validate(c)
    \/ BuildRequest(c)
    \/ FetchFail(c)
    \/ \E st \in I.status : Fetch(c, st)
    \/ task[c].pc = "readBody" /\ \E b \in I.body : ReadBodyFail(c, b)
    \/ task[c].pc = "readBody" /\ \E b \in I.body : ReadBody(c, b)
    \/ Respond(c)
    \/ TaskClose(c)
    \/ TaskDone(c)

(***************************************************************************)
(* The server: Serve, the callers of Stop and the tasks.                   *)
(***************************************************************************)
Next ==
    \/ ServeNext
    \/ \E s \in Stoppers : StopCall(s)
    \/ \E c \in Conns : TaskNext(c, ServerInputs)

Spec == Init /\ [][Next]_vars

(***************************************************************************)
(* The server under the scheduling the Go runtime gives: a goroutine that  *)
(* can run does run, so Serve and every task keep taking steps. Whether    *)
(* Stop is called, and what Accept returns, is left to the environment.    *)
(***************************************************************************)
FairSpec ==
    /\ Spec
    /\ WF_vars(ServeNext)
    /\ \A c \in Conns : WF_vars(TaskNext(c, ServerInputs))

(***************************************************************************)
(* The pipeline of one connection, on exhaustive inputs: it starts in the  *)
(* state Serve is in after accepting connection 1 and starting its task.   *)
(***************************************************************************)
\* Serve has accepted connection 1 and started its task
Started ==
    /\ servePc = "accept"
    /\ serveConn = 0
    /\ serveErr = "none"
    /\ acceptLogged = FALSE
    /\ wg = 1
    /\ stopPc = [s \in Stoppers |-> "idle"]
    /\ task = [c \in Conns |-> IF c = 1 THEN [NewConn EXCEPT !.pc = "rateCheck"]
                                        ELSE NoConn]

PipelineInit ==
    /\ Started
    /\ upstream = DefaultUpstream
    /\ headers = ReadmeHeaders

PipelineNext == TaskNext(1, PipelineInputs)

PipelineSpec == PipelineInit /\ [][PipelineNext]_vars

(***************************************************************************)
(* The pipeline of one connection under every configuration: every header  *)
(* list with the default template, and every template with the headers of  *)
(* the README.                                                             *)
(***************************************************************************)
RequestInit ==
    /\ Started
    /\ \/ upstream = DefaultUpstream /\ headers \in AllHeaderLists
       \/ upstream \in AllTemplates /\ headers = ReadmeHeaders

RequestNext == TaskNext(1, ServerInputs)

RequestSpec == RequestInit /\ [][RequestNext]_vars

(***************************************************************************)
(* Properties.                                                             *)
(***************************************************************************)
StopReturned == \E s \in Stoppers : stopPc[s] = "returned"

StopRequested == \E s \in Stoppers : stopPc[s] = "sending"

\* handler has returned and the task has not yet called wg.Done()
Returned(t) == t.pc \in {"returned", "closed"}

\* handler has returned after writing the response to a body it read in full
Responded(t) == Returned(t) /\ t.rd = "ok"

\* every LF of s is immediately preceded by a CR
NoBareLF(s) == \A i \in 1..Len(s) : s[i] = LF => (i > 1 /\ s[i - 1] = CR)

(* C1: Stop() returns only after every handler task Serve spawned has      *)
(* returned and closed its connection: whenever a Stop() call has          *)
(* returned, the wait group is at zero and no slot holds a connection that *)
(* is open or whose task is still running.                                 *)
C1_StopAfterDrain ==
    StopReturned =>
        /\ wg = 0
        /\ \A c \in Conns : task[c].pc \in {"free", "done"} /\ ~task[c].open

\* C1: a Stop() call has returned after a connection was served to the end
C1_Witness == StopReturned /\ \E c \in Conns : task[c].pc = "done"

(* C2: after a Stop() call has returned Serve accepts no connection and    *)
(* spawns no task: Serve has left the loop for good (it is at its end and  *)
(* has no step left) and holds no accepted connection waiting for a task.  *)
C2_NoAcceptAfterStop ==
    StopReturned =>
        /\ servePc = "exited"
        /\ ~ENABLED ServeNext
        /\ serveConn = 0
        /\ \A c \in Conns : task[c].pc # "accepted"

\* C2: Stop() has returned while a slot is free for a client that connects
C2_Witness == StopReturned /\ servePc = "exited" /\ FreeSlots # {}

(* C3: from the moment a Stop() call is offering the stop signal, Serve    *)
(* accepts no new connection: no step taken while a caller is blocked in   *)
(* s.stop <- true is a successful Accept.                                  *)
C3_NoAcceptOnceRequested ==
    [][StopRequested => ~(servePc = "accept" /\ servePc' = "add")]_vars

(* C4: if Stop() is called while Serve is in its loop, and every handler   *)
(* returns, then a Stop() call returns, whatever the clients do.           *)
C4_StopEventuallyReturns ==
    (StopRequested /\ servePc \in {"accept", "select", "add", "go"}) ~> StopReturned

(* C5: when the rate limiter reports the limit reached, the handler writes *)
(* exactly "Rate limited\r\n", reads no query line, makes no upstream call *)
(* and returns nil.                                                        *)
C5_RateLimited ==
    \A c \in Conns :
        task[c].lim = "reached" =>
            /\ Returned(task[c])
            /\ task[c].out = RateLimitedMsg
            /\ task[c].reads = 0
            /\ task[c].calls = 0
            /\ task[c].err = "nil"

\* C5: a rate limited connection has been answered and closed
C5_Witness == \E c \in Conns : task[c].lim = "reached" /\ task[c].pc = "closed"

(* C6: when the query line fails validation the handler writes exactly     *)
(* "Invalid query\r\n", makes no upstream call and returns nil.            *)
C6_InvalidQuery ==
    \A c \in Conns :
        (task[c].valid = "no" \/ (task[c].valid # "none" /\ ~CommandMatch(task[c].query))) =>
            /\ Returned(task[c])
            /\ task[c].out = InvalidQueryMsg
            /\ task[c].calls = 0
            /\ task[c].up = "none"
            /\ task[c].err = "nil"

\* C6: the query "not a domain" has been rejected
C6_Witness ==
    \E c \in Conns :
        task[c].valid = "no" /\ task[c].query = NotADomain /\ task[c].pc = "closed"

(* C7: the translated output holds no LF that is not immediately preceded  *)
(* by CR, for every upstream body.                                         *)
C7_NoBareLFWritten ==
    \A c \in Conns : Responded(task[c]) => NoBareLF(task[c].out)

(* C8: on a 200 response the bytes written are the translated body         *)
(* followed by one "\r\n": a body whose every LF follows a CR is written   *)
(* unchanged plus "\r\n", "a\nb\n" gives "a\r\nb\r\n\r\n" and              *)
(* "Domain: example.com\n" gives "Domain: example.com\r\n\r\n".            *)
C8_ResponseBytes ==
    \A c \in Conns :
        Responded(task[c]) =>
            LET b == task[c].body
                o == task[c].out
            IN  /\ task[c].status = StatusOK
                /\ Len(o) = Len(Translate(b)) + 2
                /\ SubSeq(o, 1, Len(o) - 2) = Translate(b)
                /\ SubSeq(o, Len(o) - 1, Len(o)) = <<CR, LF>>
                /\ (NoBareLF(b) => o = b \o <<CR, LF>>)
                /\ (b = BareLines => o = <<97, CR, LF, 98, CR, LF, CR, LF>>)
                /\ (b = CRLFLines => o = <<97, CR, LF, 98, CR, LF, CR, LF>>)
                /\ (b = DomainBody =>
                        o = SubSeq(DomainBody, 1, Len(DomainBody) - 1)
                                \o <<CR, LF, CR, LF>>)

\* C8: the body "a\nb\n" has been answered
C8_Witness ==
    \E c \in Conns : Responded(task[c]) /\ task[c].body = BareLines

(* C9: a transport failure writes "Upstream query failed\r\n", a status    *)
(* other than 200 writes "Invalid query\r\n", a body read failure writes   *)
(* "Error reading upstream body\r\n"; each returns an error and writes     *)
(* nothing else, and only a 200 response whose body was read in full       *)
(* reaches the response.                                                   *)
C9_UpstreamFailures ==
    \A c \in Conns :
        LET t == task[c] IN
        /\ t.up = "fail" =>
                Returned(t) /\ t.out = UpstreamFailedMsg /\ t.err = "transport"
        /\ (t.up = "ok" /\ t.status # 200) =>
                Returned(t) /\ t.out = InvalidQueryMsg /\ t.err = "status"
        /\ t.rd = "fail" =>
                Returned(t) /\ t.out = BodyReadErrorMsg /\ t.err = "bodyread"
        /\ (t.pc = "respond" \/ Responded(t)) =>
                t.up = "ok" /\ t.status = 200 /\ t.rd = "ok"
        /\ t.err \in {"transport", "status", "bodyread"} => t.rd # "ok"

\* C9: reading the body failed after some bytes, and the task went on to close
C9_Witness ==
    \E c \in Conns :
        task[c].rd = "fail" /\ task[c].body # <<>> /\ task[c].pc = "closed"

(***************************************************************************)
(* The domain grammar of the specification: labels of alphanumerics and    *)
(* hyphens, 1 to LabelMax bytes each, not starting or ending with a        *)
(* hyphen, separated by dots, then a last label of at least 2 letters,     *)
(* then an optional dot.                                                   *)
(***************************************************************************)
LabelMax == 63

InGrammar(s) ==
    LET core == IF s # <<>> /\ s[Len(s)] = Dot THEN SubSeq(s, 1, Len(s) - 1) ELSE s
        n == Len(core)
        dots == {i \in 1..n : core[i] = Dot}
    IN  /\ dots # {}
        /\ LET last == CHOOSE i \in dots : \A j \in dots : j <= i IN
            /\ n - last >= 2
            /\ \A i \in (last + 1)..n : IsAlpha(core[i])
            /\ \A i \in 1..last : core[i] = Dot \/ IsAlnumHyphen(core[i])
            /\ \A i \in dots : i > 1 /\ core[i - 1] \notin {Dot, Hyphen}
            /\ \A i \in 1..(last - 1) :
                    (i = 1 \/ core[i - 1] = Dot) => core[i] # Hyphen
            /\ \A i \in 1..(last - LabelMax) :
                    \E k \in i..(i + LabelMax) : core[k] = Dot

(* C10: the validator accepts every string of the domain grammar,          *)
(* multi-label names and single-character labels included.                 *)
C10_AcceptsGrammar ==
    \A c \in Conns :
        (task[c].valid # "none" /\ InGrammar(task[c].query)) => task[c].valid = "yes"

Built(t) == t.valid = "yes" /\ t.pc # "build"

IsHost(h) == h.name = "Host"

IsNotHost(h) == h.name # "Host"

Contains(s, old) == \E i \in 1..Len(s) : HasPrefixAt(s, old, i)

\* the number of occurrences of "{{query}}" in s, which cannot overlap
Placeholders(s) == Cardinality({i \in 1..Len(s) : HasPrefixAt(s, QueryToken, i)})

(* C13: the URL of the upstream request is the template with every         *)
(* "{{query}}" replaced by the percent-encoded query: no "{{query}}" is    *)
(* left in it, it is as much longer than the template as the replacements  *)
(* make it, a template without placeholder is used as it is, and the       *)
(* default template gives the URL of the README for example.com.           *)
C13_URL ==
    \A c \in Conns :
        Built(task[c]) =>
            LET q == QueryEscape(task[c].query)
            IN /\ ~Contains(task[c].url, QueryToken)
               /\ Len(task[c].url) =
                      Len(upstream) + Placeholders(upstream) * (Len(q) - Len(QueryToken))
               /\ Placeholders(upstream) = 0 => task[c].url = upstream
               /\ upstream = QueryToken \o QueryToken => task[c].url = q \o q
               /\ (upstream = DefaultUpstream /\ task[c].query = ExampleCom) =>
                      task[c].url = DefaultUpstreamForExampleCom

\* C13: a request was built from a template with two placeholders
C13_Witness ==
    /\ Built(task[1])
    /\ Placeholders(upstream) = 2
    /\ task[1].query = ExampleCom

\* positions of a task inside handler
InHandler ==
    {"rateCheck", "read", "validate", "build", "fetch", "readBody", "respond"}

(* C14: every accepted connection is closed exactly once, by its own task, *)
(* after handler has returned, whatever handler returned: a connection     *)
(* Serve still holds or whose handler is running or has just returned is   *)
(* open and was never closed; once the task is past conn.Close() the       *)
(* connection is closed, exactly one Close was called and handler had      *)
(* returned; Serve holds a connection only until it starts its task.       *)
C14_ClosedOnceByTask ==
    \A c \in Conns :
        /\ task[c].pc \in {"accepted", "returned"} \cup InHandler =>
               task[c].open /\ task[c].closes = 0
        /\ task[c].pc \in InHandler => task[c].err = "none"
        /\ task[c].pc = "closed" =>
               ~task[c].open /\ task[c].closes = 1 /\ task[c].err # "none"
        /\ task[c].pc \in {"free", "done"} => ~task[c].open
        /\ serveConn = c <=> task[c].pc = "accepted"

\* C14: a connection whose handler returned the read error has been closed
C14_Witness ==
    \E c \in Conns :
        /\ task[c].pc = "closed"
        /\ task[c].err = "read"
        /\ task[c].closes = 1
        /\ \E d \in Conns : task[d].pc \in InHandler

(* C15: the steps of handler come in the order rate check, read, validate, *)
(* fetch, respond: a line is read at most once and only after the limiter  *)
(* let the client through; the query is validated only after a full line   *)
(* was read; client.Do is called at most once and only for a query the     *)
(* validator accepted; a body is read only from a 200 answer to that call. *)
C15_StepOrder ==
    \A c \in Conns :
        LET t == task[c]
        IN /\ t.reads <= 1 /\ t.calls <= 1
           /\ t.reads = 1 => t.lim \in {"ok", "error"}
           /\ t.valid # "none" => t.reads = 1 /\ t.err # "read"
           /\ t.calls = 1 =>
                  /\ t.lim \in {"ok", "error"}
                  /\ t.reads = 1
                  /\ t.valid = "yes" /\ CommandMatch(t.query)
                  /\ t.up # "none"
           /\ t.up # "none" => t.calls = 1
           /\ t.rd # "none" => t.calls = 1 /\ t.up = "ok" /\ t.status = StatusOK
           /\ t.pc = "respond" => t.rd = "ok"

\* C15: a connection went through all five steps
C15_Witness ==
    \E c \in Conns :
        /\ Responded(task[c])
        /\ task[c].reads = 1
        /\ task[c].calls = 1
        /\ task[c].lim = "ok"

\* the lines handler answers a rejected request with
RejectionLines == {RateLimitedMsg, InvalidQueryMsg, UpstreamFailedMsg, BodyReadErrorMsg}

(* C16: when handler has returned it has written exactly one response,     *)
(* either one of the four rejection lines or the translated body followed  *)
(* by CR LF and never a rejection line together with a body, except when   *)
(* reading the query line failed: then it has written nothing, has made no *)
(* upstream call and has returned the read error.                          *)
C16_OneResponse ==
    \A c \in Conns :
        LET t == task[c]
        IN Returned(t) =>
               /\ (t.reads = 1 /\ t.valid = "none") <=> t.err = "read"
               /\ t.err = "read" => t.out = <<>> /\ t.calls = 0
               /\ t.err # "read" =>
                      IF t.rd = "ok"
                      THEN t.out = Translate(t.body) \o CRLF /\ t.err = "nil"
                      ELSE /\ t.out \in RejectionLines
                           /\ t.out = RateLimitedMsg <=> t.lim = "reached"
                           /\ t.out = InvalidQueryMsg <=>
                                  (t.valid = "no" \/ (t.up = "ok" /\ t.status # StatusOK))
                           /\ t.out = UpstreamFailedMsg <=> t.up = "fail"
                           /\ t.out = BodyReadErrorMsg <=> t.rd = "fail"

\* C16: handler returned the read error of a client that sent bytes and no LF
C16_Witness ==
    \E c \in Conns :
        /\ Returned(task[c])
        /\ task[c].err = "read"
        /\ task[c].reads = 1
        /\ task[c].out = <<>>

\* this step takes Serve out of its accept loop
LeavesLoop == servePc # "wait" /\ servePc' = "wait"

(* C17, as stated: Serve leaves its accept loop only when an accept        *)
(* timeout occurs while the stop signal is pending.                        *)
C17_LeavesOnlyOnTimeout ==
    [][LeavesLoop => serveErr = "timeout" /\ StopRequested]_vars

(* C17, amended: Serve leaves its accept loop only from the select that    *)
(* follows a failed Accept, timeout or not, and only by receiving the      *)
(* value of a pending Stop(); with no Stop() pending the select sends it   *)
(* back to Accept; an error other than a timeout is logged and a timeout   *)
(* is not.                                                                 *)
C17_LeavesOnlyOnStop ==
    [][/\ LeavesLoop =>
              /\ servePc = "select"
              /\ serveErr \in {"timeout", "other"}
              /\ \E s \in Stoppers : stopPc[s] = "sending" /\ stopPc'[s] = "waiting"
       /\ (servePc = "select" /\ ~StopRequested) => servePc' \in {"select", "accept"}
       /\ servePc = "select" => (acceptLogged <=> serveErr = "other")
       /\ servePc' = "select" => (acceptLogged' <=> serveErr' = "other")]_vars

\* C17: Accept failed with an error other than a timeout while a Stop() is pending
C17_Witness ==
    /\ servePc = "select"
    /\ serveErr = "other"
    /\ acceptLogged
    /\ StopRequested

\* values transferred over stop so far: one per caller of Stop past its send
StopTransfers == Cardinality({s \in Stoppers : stopPc[s] \in {"waiting", "returned"}})

\* values transferred over done so far: one per caller of Stop past its receive
DoneTransfers == Cardinality({s \in Stoppers : stopPc[s] = "returned"})

(* C18: however many Stop() calls are made, at most one value is           *)
(* transferred over stop and at most one over done, and the transfer over  *)
(* done comes only after the transfer over stop, from a Serve that has     *)
(* left its loop and is at its end.                                        *)
C18_OneTransferEach ==
    /\ StopTransfers <= 1
    /\ DoneTransfers <= 1
    /\ DoneTransfers <= StopTransfers
    /\ DoneTransfers = 1 => servePc = "exited"
    /\ StopTransfers = 1 <=> servePc \in {"wait", "sendDone", "exited"}

\* C18: both transfers have happened while another Stop() call is blocked
C18_Witness ==
    /\ StopTransfers = 1
    /\ DoneTransfers = 1
    /\ \E s \in Stoppers : stopPc[s] = "sending"

\* Serve has left its accept loop
LeftLoop == servePc \in {"wait", "sendDone", "exited"}

(* C19: Stop() is single-use. Once Serve has left its accept loop it never *)
(* enters it again, and a Stop() call that has not yet handed over its     *)
(* stop value (not started, or blocked in the send) never gets past that   *)
(* send, so it never returns. Serve's send on done completes only as a     *)
(* rendezvous with a Stop() call waiting in <-s.done: without one it stays *)
(* blocked.                                                                *)
C19_StopSingleUse ==
    [][/\ LeftLoop => LeftLoop'
       /\ \A s \in Stoppers :
              (LeftLoop /\ stopPc[s] \in {"idle", "sending"}) =>
                  stopPc'[s] \in {"idle", "sending"}
       /\ (servePc = "sendDone" /\ servePc' # "sendDone") =>
              \E s \in Stoppers : stopPc[s] = "waiting" /\ stopPc'[s] = "returned"]_vars

\* C19: Serve is over, one Stop() has returned and every other one is blocked
C19_Witness ==
    /\ servePc = "exited"
    /\ Cardinality({s \in Stoppers : stopPc[s] = "returned"}) = 1
    /\ Cardinality({s \in Stoppers : stopPc[s] = "sending"}) = NumStoppers - 1

(* C20: the rate check fails open. When limiter.Get returned an error the  *)
(* handler goes on to read the query as for an allowed client and never    *)
(* writes "Rate limited"; "Rate limited" is written only when the limiter  *)
(* answered without error that the limit is reached, and then nothing is   *)
(* read.                                                                   *)
C20_FailsOpen ==
    \A c \in Conns :
        LET t == task[c]
        IN /\ t.lim \in {"error", "ok"} =>
                  /\ t.pc = "read" \/ t.reads = 1
                  /\ ~HasPrefixAt(t.out, RateLimitedMsg, 1)
           /\ HasPrefixAt(t.out, RateLimitedMsg, 1) => t.lim = "reached" /\ t.reads = 0
           /\ (Returned(t) /\ t.reads = 0) => t.lim = "reached" /\ t.out = RateLimitedMsg

\* C20: a client was answered in full although limiter.Get had returned an error
C20_Witness ==
    \E c \in Conns :
        /\ task[c].lim = "error"
        /\ Responded(task[c])
        /\ task[c].out = Translate(task[c].body) \o CRLF

====
